---- MODULE Spec2Model ----
(***************************************************************************)
(* Series Codex (src/newfile.py): a menu-driven editor of one JSON         *)
(* document.  The model keeps the in-memory document (data), the persisted *)
(* document (disk), the menu loop the program is prompting in (pc), the    *)
(* book selected in the book submenu (sel), the wall clock in seconds      *)
(* (now) and what the last handler printed (out).  One action is one       *)
(* handler of a menu loop, run to its end.  retired is a history variable: *)
(* the ids of the master entries deleted so far, which only SpecCodex      *)
(* advances; asked is what the user answered to the last handler, which    *)
(* SpecSelect, SpecAnalysis and SpecBooks record; eof says that standard   *)
(* input is at its end, which only SpecEOF lets happen.  The file holds    *)
(* the whole document, every value of which JSON represents, so disk is    *)
(* the document that json.dump wrote.                                      *)
(***************************************************************************)
EXTENDS Integers, Sequences, FiniteSets, TLC

VARIABLES data, disk, pc, sel, now, out, retired, asked, eof

vars == <<data, disk, pc, sel, now, out, retired, asked, eof>>

\* the history variables and the state of standard input
hist == <<retired, asked, eof>>

-----------------------------------------------------------------------------
(* Bounds of the model *)

MaxBooks == 2
MaxChars == 2
MaxLocs == 1
MaxLore == 1
MaxClock == 1
MaxRefs == 2
MaxBeats == 1
MaxEvents == 1
MaxTimeline == 1
MaxCast == 3
MaxShelf == 4

-----------------------------------------------------------------------------
(* Python values *)

\* None in an Optional[int]: str.isdigit admits no negative number
NoneInt == -1

\* None as the result of choose_from_list; list indexes are 0-based
NoIdx == -1

RemoveAt(s, i) == SubSeq(s, 1, i - 1) \o SubSeq(s, i + 1, Len(s))

Range(s) == {s[i] : i \in 1..Len(s)}

\* dict.pop(k, None)
DictPop(d, k) == [x \in (DOMAIN d) \ {k} |-> d[x]]

\* dict.setdefault(k, v)
SetDefault(d, k, v) == [x \in (DOMAIN d) \cup {k} |-> IF x \in DOMAIN d THEN d[x] ELSE v]

\* d[k] = v
DictSet(d, k, v) == [x \in (DOMAIN d) \cup {k} |-> IF x = k THEN v ELSE d[x]]

\* dict.get(k, v)
DictGet(d, k, v) == IF k \in DOMAIN d THEN d[k] ELSE v

EmptyDict == [x \in {} |-> 0]

\* list.remove(x): removes the first occurrence
RECURSIVE IndexOf(_, _, _)
IndexOf(s, x, i) == IF i > Len(s) THEN 0 ELSE IF s[i] = x THEN i ELSE IndexOf(s, x, i + 1)

ListRemove(s, x) == IF IndexOf(s, x, 1) = 0 THEN s ELSE RemoveAt(s, IndexOf(s, x, 1))

-----------------------------------------------------------------------------
(* Strings *)

UpperCase == "ABCDEFGHIJKLMNOPQRSTUVWXYZ"
LowerCase == "abcdefghijklmnopqrstuvwxyz"

CharAt(s, i) == SubSeq(s, i, i)

UpperSet == {CharAt(UpperCase, i) : i \in 1..Len(UpperCase)}

LowerOf == [c \in UpperSet |-> CharAt(LowerCase, CHOOSE i \in 1..Len(UpperCase) : CharAt(UpperCase, i) = c)]

LowerChar(c) == IF c \in UpperSet THEN LowerOf[c] ELSE c

\* str.lower()
RECURSIVE Lower(_)
Lower(s) == IF Len(s) = 0 THEN "" ELSE LowerChar(CharAt(s, 1)) \o Lower(SubSeq(s, 2, Len(s)))

\* `kw in t` for strings
Contains(t, kw) == \E i \in 1..(Len(t) - Len(kw) + 1) : SubSeq(t, i, i + Len(kw) - 1) = kw

\* str.strip(), for the blank
RECURSIVE Strip(_)
Strip(s) ==
    IF Len(s) = 0 THEN s
    ELSE IF CharAt(s, 1) = " " THEN Strip(SubSeq(s, 2, Len(s)))
    ELSE IF CharAt(s, Len(s)) = " " THEN Strip(SubSeq(s, 1, Len(s) - 1))
    ELSE s

Digits == "0123456789"

IsDigitChar(c) == \E i \in 1..Len(Digits) : CharAt(Digits, i) = c

DigitVal(c) == CHOOSE d \in 0..9 : CharAt(Digits, d + 1) = c

\* str.isdigit(), for ASCII input
IsDigit(s) == Len(s) > 0 /\ \A i \in 1..Len(s) : IsDigitChar(CharAt(s, i))

RECURSIVE DigitsToInt(_)
DigitsToInt(s) == IF Len(s) = 0 THEN 0 ELSE 10 * DigitsToInt(SubSeq(s, 1, Len(s) - 1)) + DigitVal(CharAt(s, Len(s)))

\* int(s) succeeds: an optional sign and then digits
IsInt(s) ==
    \/ IsDigit(s)
    \/ Len(s) > 1 /\ CharAt(s, 1) \in {"+", "-"} /\ IsDigit(SubSeq(s, 2, Len(s)))

StrToInt(s) ==
    IF IsDigit(s) THEN DigitsToInt(s)
    ELSE IF CharAt(s, 1) = "-" THEN 0 - DigitsToInt(SubSeq(s, 2, Len(s)))
    ELSE DigitsToInt(SubSeq(s, 2, Len(s)))

\* x or y, for strings
Or(x, y) == IF x = "" THEN y ELSE x

-----------------------------------------------------------------------------
(* Utilities *)

save_data(d) == d

\* the default structure of load_data; created_at is the clock at the first run
DefaultData(t) ==
    [meta |-> [created_at |-> t],
     series |-> <<>>,
     books |-> <<>>,
     master |-> [characters |-> <<>>, locations |-> <<>>, lore |-> <<>>],
     timeline |-> <<>>]

\* a variant in which an empty answer chooses the first item
choose_from_list_EmptyIsFirst(items, s) ==
    LET r == Strip(s) IN
    IF Len(items) = 0 THEN NoIdx
    ELSE IF r = "" THEN 0
    ELSE IF ~IsInt(r) THEN NoIdx
    ELSE IF 0 <= StrToInt(r) - 1 /\ StrToInt(r) - 1 < Len(items) THEN StrToInt(r) - 1
    ELSE NoIdx

\* choose_from_list(items, prompt) when the user answers s: a 0-based index or None
choose_from_list(items, s) ==
    LET r == Strip(s) IN
    IF Len(items) = 0 THEN NoIdx
    ELSE IF r = "" THEN NoIdx
    ELSE IF ~IsInt(r) THEN NoIdx
    ELSE IF 0 <= StrToInt(r) - 1 /\ StrToInt(r) - 1 < Len(items) THEN StrToInt(r) - 1
    ELSE NoIdx

\* the sentences of analyze_personality_text, their dash written in ASCII
SentConscientious == "High conscientiousness - likely reliable, structured, and plan-driven."
SentAgreeable == "High agreeableness - likely cooperative and empathetic."
SentLowAgreeable == "Low agreeableness - may be blunt or confrontational."
SentOpen == "High openness - imaginative and curious; likely to pursue novel choices."
SentSensitive == "Emotional sensitivity - may react strongly under stress."
SentOutgoing == "Outgoing - gains energy from others, socially proactive."
SentReserved == "Reserved - internal processing, may prefer solitude or a small circle."
NoSignal == "No strong signals detected from input; personality summary unavailable."

AnyIn(t, kws) == \E kw \in kws : Contains(t, kw)

\* " ".join(traits)
RECURSIVE Join(_)
Join(traits) ==
    IF Len(traits) = 0 THEN ""
    ELSE IF Len(traits) = 1 THEN traits[1]
    ELSE traits[1] \o " " \o Join(Tail(traits))

Traits(t) ==
    (IF AnyIn(t, {"conscientious", "conscientiousness", "organized"}) THEN <<SentConscientious>> ELSE <<>>)
    \o (IF AnyIn(t, {"agreeable", "kind", "friendly"}) THEN <<SentAgreeable>> ELSE <<>>)
    \o (IF AnyIn(t, {"low agree", "not agreeable", "blunt"}) THEN <<SentLowAgreeable>> ELSE <<>>)
    \o (IF AnyIn(t, {"open", "curious", "creative"}) THEN <<SentOpen>> ELSE <<>>)
    \o (IF AnyIn(t, {"neurotic", "anxious", "sensitive"}) THEN <<SentSensitive>> ELSE <<>>)
    \o (IF AnyIn(t, {"extro", "outgoing", "social"}) THEN <<SentOutgoing>> ELSE <<>>)
    \o (IF AnyIn(t, {"intro", "quiet", "reserved"}) THEN <<SentReserved>> ELSE <<>>)

analyze_personality_text(personality_text) ==
    LET t == Lower(personality_text)
        traits == Traits(t)
    IN  IF Len(traits) = 0 THEN NoSignal ELSE Join(traits)

-----------------------------------------------------------------------------
(* What the user may type *)

\* answers to a list selection prompt
Responses == {"", "1", " 2", "3", "0", "x"}

\* fields of create_master_character and of option 3 of manage_master_characters
CastNames == {" Ava "}
CastPersonalities == {"Kind but BLUNT"}
CodexNames == {" Ava ", "Rex"}
CodexPersonalities == {"", "Organized and KIND", "quiet introvert"}
NameEdits == {"", "ava"}
PersonalityEdits == {"", "Curious; not agreeable"}
CharRoleInputs == {"Hero"}

\* fields of option 4 of manage_book_characters
ProfileRoleInputs == {"", "Foil"}
ProfileNotesInputs == {""}

\* a beat of manage_book_plot, the fields of a timeline event and their edits,
\* and the edits of a location's name or a lore entry's title
BeatInputs == {"Inciting incident"}
WhenInputs == {"Day 1"}
DescInputs == {" Storm"}
WhenEdits == {"", "Day 2"}
PlaceEdits == {""}

\* queries put to oracles_advice
Queries == {"", " What CONFLICT is there between ava and Rex?", "a conflict between Rex and the sea",
            "How can I escalate stakes in Book 2?", "Tell me about Ava"}

\* fields of create_book
BookTitleInputs == {"The Start"}
BookNumberInputs == {"1"}

-----------------------------------------------------------------------------
(* The document *)

books == data.books
characters == data.master.characters
locations == data.master.locations
lore == data.master.lore

Ids(coll) == {coll[i].id : i \in 1..Len(coll)}

\* f"{prefix}_{len(coll) + 1}_{int(datetime.utcnow().timestamp())}"
NewId(prefix, coll, t) == prefix \o "_" \o ToString(Len(coll) + 1) \o "_" \o ToString(t)

\* find_master_character(data, cid): the first entry with that id, a sequence of 0 or 1
find_master_character(d, cid) ==
    IF IndexOf([i \in 1..Len(d.master.characters) |-> d.master.characters[i].id], cid, 1) = 0
    THEN <<>>
    ELSE <<d.master.characters[IndexOf([i \in 1..Len(d.master.characters) |-> d.master.characters[i].id], cid, 1)]>>

EmptyProfile == [role_in_book |-> "", notes |-> ""]

\* the book dictionary of create_book
NewBook(d, title, number, brief, planned_length, t) ==
    [id |-> NewId("book", d.books, t),
     title |-> Strip(title),
     number |-> IF IsDigit(Strip(number)) THEN StrToInt(Strip(number)) ELSE NoneInt,
     logline |-> Strip(brief),
     planned_length |-> IF IsDigit(Strip(planned_length)) THEN StrToInt(Strip(planned_length)) ELSE NoneInt,
     plot_outline |-> <<>>,
     characters |-> <<>>,
     book_char_profiles |-> EmptyDict,
     timeline |-> <<>>,
     themes |-> <<>>,
     created_at |-> t]

\* a variant that puts the new book in front of the others
create_book_InFront(d, title, number, brief, planned_length, t) ==
    [d EXCEPT !.books = <<NewBook(d, title, number, brief, planned_length, t)>> \o @]

create_book(d, title, number, brief, planned_length, t) ==
    [d EXCEPT !.books = Append(@, NewBook(d, title, number, brief, planned_length, t))]

\* the character dictionary of create_master_character
NewCharacter(d, name, role, personality, series_arc, notes, t) ==
    [id |-> NewId("char", d.master.characters, t),
     name |-> Strip(name),
     role |-> Strip(role),
     personality |-> Strip(personality),
     personality_analysis |-> analyze_personality_text(Strip(personality)),
     series_arc |-> Strip(series_arc),
     notes |-> Strip(notes),
     created_at |-> t]

create_master_character(d, name, role, personality, series_arc, notes, t) ==
    [d EXCEPT !.master.characters = Append(@, NewCharacter(d, name, role, personality, series_arc, notes, t))]

\* a variant that edits the text and leaves the analysis as it was
EditedCharacter_StaleAnalysis(c, name, role, personality, series_arc, notes) ==
    [c EXCEPT !.name = Or(name, @),
              !.role = Or(role, @),
              !.personality = Or(personality, @),
              !.series_arc = Or(series_arc, @),
              !.notes = Or(notes, @)]

\* manage_master_characters, option 3, on the character at idx (0-based)
EditedCharacter(c, name, role, personality, series_arc, notes) ==
    [c EXCEPT !.name = Or(name, @),
              !.role = Or(role, @),
              !.personality = Or(personality, @),
              !.personality_analysis = analyze_personality_text(Or(personality, c.personality)),
              !.series_arc = Or(series_arc, @),
              !.notes = Or(notes, @)]

edit_master_character(d, idx, name, role, personality, series_arc, notes) ==
    [d EXCEPT !.master.characters[idx + 1] = EditedCharacter(@, name, role, personality, series_arc, notes)]

\* a variant that removes the reference and leaves the profile entry
CleanBook_KeepsProfile(b, cid) ==
    IF cid \in Range(b.characters)
    THEN [b EXCEPT !.characters = ListRemove(@, cid)]
    ELSE b

\* the loop body of the cascade: one book after the deletion of the character cid
CleanBook(b, cid) ==
    IF cid \in Range(b.characters)
    THEN [b EXCEPT !.characters = ListRemove(@, cid),
                   !.book_char_profiles = DictPop(@, cid)]
    ELSE b

\* a variant that deletes the character and leaves the books alone
delete_master_character_NoCascade(d, idx) ==
    [d EXCEPT !.master.characters = RemoveAt(@, idx + 1)]

\* manage_master_characters, option 4, on the character at idx (0-based)
delete_master_character(d, idx) ==
    [d EXCEPT !.master.characters = RemoveAt(@, idx + 1),
              !.books = [i \in 1..Len(d.books) |-> CleanBook(d.books[i], d.master.characters[idx + 1].id)]]

\* manage_book_characters, option 2, with the master character at idx (0-based)
AddedBook(b, cid) ==
    [b EXCEPT !.characters = Append(@, cid),
              !.book_char_profiles = SetDefault(@, cid, EmptyProfile)]

\* manage_book_characters, option 4, on the reference at position n (0-based)
EditedProfile(b, n, role, notes) ==
    [b EXCEPT !.book_char_profiles =
        DictSet(@, b.characters[n + 1],
                [role_in_book |-> Or(role, DictGet(b.book_char_profiles, b.characters[n + 1], EmptyProfile).role_in_book),
                 notes |-> Or(notes, DictGet(b.book_char_profiles, b.characters[n + 1], EmptyProfile).notes)])]

\* a variant that removes the reference and leaves the profile entry
RemovedFromBook_KeepsProfile(b, n) ==
    [b EXCEPT !.characters = RemoveAt(@, n + 1)]

\* manage_book_characters, option 5, on the reference at position n (0-based)
RemovedFromBook(b, n) ==
    [b EXCEPT !.characters = RemoveAt(@, n + 1),
              !.book_char_profiles = DictPop(@, b.characters[n + 1])]

\* the names manage_book_characters shows for the references of a book
RefNames(d, b) ==
    [i \in 1..Len(b.characters) |->
        IF find_master_character(d, b.characters[i]) = <<>>
        THEN "(missing:" \o b.characters[i] \o ")"
        ELSE find_master_character(d, b.characters[i])[1].name]

\* manage_book_characters, option 1: the lines printed for a book
RECURSIVE ListedLines(_, _)
ListedLines(d, refs) ==
    IF Len(refs) = 0 THEN <<>>
    ELSE (IF find_master_character(d, Head(refs)) = <<>>
          THEN <<>>
          ELSE <<"- " \o find_master_character(d, Head(refs))[1].name \o " (id:" \o Head(refs) \o ")">>)
         \o ListedLines(d, Tail(refs))

list_book_characters(d, b) ==
    IF Len(b.characters) = 0 THEN <<"No characters assigned to this book.">>
    ELSE ListedLines(d, b.characters)

CharacterLabels(d) == [i \in 1..Len(d.master.characters) |-> d.master.characters[i].name \o " (" \o d.master.characters[i].role \o ")"]

\* str(x) of an Optional[int]
OptStr(n) == IF n = NoneInt THEN "None" ELSE ToString(n)

BookLabels(d) == [i \in 1..Len(d.books) |-> Or(d.books[i].title, "<untitled>") \o " (num:" \o OptStr(d.books[i].number) \o ")"]

\* what a handler printed, menus, prompts and the choices of a list left out;
\* cleaned is the number of books the cascade of a deletion went into
Said(lines) == [lines |-> lines, cleaned |-> 0]

Silent == Said(<<>>)

\* the menu loops, named after where the program prompts
MenuPrompts == {"main", "book", "book_characters", "master_codex", "master_characters",
                "master_locations", "master_lore", "master_timeline", "series_analysis"}

\* no list selection prompt was answered
NotAsked == [prompt |-> "", size |-> 0, response |-> ""]

\* choose_from_list(items, prompt) read the answer s, when items is not empty
Asked(prompt, items, s) ==
    IF Len(items) = 0 THEN NotAsked ELSE [prompt |-> prompt, size |-> Len(items), response |-> s]

\* choose_from_list prints "(none)" for an empty list
NonePrinted(items) == IF Len(items) = 0 THEN <<"  (none)">> ELSE <<>>

CharacterNames(d) == [i \in 1..Len(d.master.characters) |-> d.master.characters[i].name]

\* the entry dictionaries of options 2 of manage_master_locations and manage_master_lore
NewLocation(d, name, brief, evolution, t) ==
    [id |-> NewId("loc", d.master.locations, t),
     name |-> Strip(name), brief |-> Strip(brief), evolution |-> Strip(evolution),
     created_at |-> t]

NewLore(d, title, summary, t) ==
    [id |-> NewId("lore", d.master.lore, t),
     title |-> Strip(title), summary |-> Strip(summary), created_at |-> t]

-----------------------------------------------------------------------------
(* Start: load_data with no file present, then the main menu *)

Init ==
    /\ now = 0
    /\ data = DefaultData(0)
    /\ disk = save_data(DefaultData(0))
    /\ pc = "main"
    /\ sel = 0
    /\ out = Silent
    /\ retired = {}
    /\ asked = NotAsked
    /\ eof = FALSE

\* the wall clock advances between two handlers
Tick ==
    /\ now < MaxClock
    /\ now' = now + 1
    /\ UNCHANGED <<data, disk, pc, sel, out>>

-----------------------------------------------------------------------------
(* run_cli and manage_book *)

\* main menu 2, then A: create_book
MainCreateBook ==
    /\ pc = "main"
    /\ Len(books) < MaxBooks
    /\ \E title \in BookTitleInputs, number \in BookNumberInputs :
          data' = create_book(data, title, number, "", "", now)
    /\ disk' = save_data(data')
    /\ out' = Said(<<"[Reactive Comment] Book created. Think about the inciting incident next.">>)
    /\ UNCHANGED <<pc, sel, now>>

\* main menu 2, then B: select_book_index and, with a book chosen, book_submenu
SelectBook(s) ==
    /\ pc = "main"
    /\    IF Len(books) = 0
          THEN /\ out' = Said(<<"No books created yet.">>)
               /\ UNCHANGED <<pc, sel>>
          ELSE IF choose_from_list(BookLabels(data), s) = NoIdx
          THEN /\ out' = Silent
               /\ UNCHANGED <<pc, sel>>
          ELSE /\ pc' = "book"
               /\ sel' = choose_from_list(BookLabels(data), s) + 1
               /\ out' = Silent
    /\ UNCHANGED <<data, disk, now>>

MainSelectBook == \E s \in Responses : SelectBook(s)

\* main menu 3: view_master_codex
MainMasterCodex ==
    /\ pc = "main"
    /\ pc' = "master_codex"
    /\ out' = Silent
    /\ UNCHANGED <<data, disk, sel, now>>

-----------------------------------------------------------------------------
(* book_submenu, on the book data.books[sel] *)

\* b: manage_book_characters
BookCharacters ==
    /\ pc = "book"
    /\ pc' = "book_characters"
    /\ out' = Silent
    /\ UNCHANGED <<data, disk, sel, now>>

\* f: save and back to the main menu
BookBack ==
    /\ pc = "book"
    /\ disk' = save_data(data)
    /\ pc' = "main"
    /\ sel' = 0
    /\ out' = Silent
    /\ UNCHANGED <<data, now>>

-----------------------------------------------------------------------------
(* manage_book_characters, on the book data.books[sel] *)

\* 1: list book characters
BookCharsList ==
    /\ pc = "book_characters"
    /\ out' = Said(list_book_characters(data, books[sel]))
    /\ UNCHANGED <<data, disk, pc, sel, now>>

\* 2: add master character to this book
BookCharsAdd ==
    /\ pc = "book_characters"
    /\ \E s \in Responses :
          LET idx == choose_from_list(CharacterNames(data), s) IN
          IF idx = NoIdx
          THEN /\ out' = Said(NonePrinted(CharacterNames(data)))
               /\ UNCHANGED <<data, disk>>
          ELSE IF characters[idx + 1].id \notin Range(books[sel].characters)
          THEN /\ data' = [data EXCEPT !.books[sel] = AddedBook(@, characters[idx + 1].id)]
               /\ disk' = save_data(data')
               /\ out' = Said(<<"[Reactive Comment] Character added to book.">>)
          ELSE /\ out' = Said(<<"Character already in book.">>)
               /\ UNCHANGED <<data, disk>>
    /\ UNCHANGED <<pc, sel, now>>

CreatedLine(name) == "[Reactive Comment] Master character '" \o Strip(name) \o "' created and saved."

\* 3: create new master character and add it
BookCharsCreateAndAdd(names, personalities) ==
    /\ pc = "book_characters"
    /\ Len(characters) < MaxChars
    /\ \E name \in names, role \in CharRoleInputs, personality \in personalities :
          /\ data' = create_master_character(data, name, role, personality, "", "", now)
          /\ out' = Said(<<CreatedLine(name)>>)
    /\ disk' = save_data(data')
    /\ UNCHANGED <<pc, sel, now>>

\* 4: edit book-specific character profile
EditProfile(s) ==
    /\ pc = "book_characters"
    /\ \E role \in ProfileRoleInputs, notes \in ProfileNotesInputs :
          LET n == choose_from_list(RefNames(data, books[sel]), s) IN
          IF Len(books[sel].characters) = 0
          THEN /\ out' = Said(<<"No characters to edit.">>)
               /\ UNCHANGED <<data, disk>>
          ELSE IF n = NoIdx
          THEN /\ out' = Silent
               /\ UNCHANGED <<data, disk>>
          ELSE /\ data' = [data EXCEPT !.books[sel] = EditedProfile(@, n, role, notes)]
               /\ disk' = save_data(data')
               /\ out' = Said(<<"[Reactive Comment] Book-specific character profile updated.">>)
    /\ UNCHANGED <<pc, sel, now>>

BookCharsEditProfile == \E s \in Responses : EditProfile(s)

\* a variant of option 5 that does not call save_data
BookCharsRemove_NoSave ==
    /\ pc = "book_characters"
    /\ \E s \in Responses :
          LET n == choose_from_list(RefNames(data, books[sel]), s) IN
          IF Len(books[sel].characters) = 0
          THEN /\ out' = Said(<<"No characters to remove.">>)
               /\ UNCHANGED data
          ELSE IF n = NoIdx
          THEN /\ out' = Silent
               /\ UNCHANGED data
          ELSE /\ data' = [data EXCEPT !.books[sel] = RemovedFromBook(@, n)]
               /\ out' = Said(<<"[Reactive Comment] Character removed from book.">>)
    /\ UNCHANGED <<disk, pc, sel, now>>

\* 5: remove character from book
RemoveFromBook(s) ==
    /\ pc = "book_characters"
    /\    LET n == choose_from_list(RefNames(data, books[sel]), s) IN
          IF Len(books[sel].characters) = 0
          THEN /\ out' = Said(<<"No characters to remove.">>)
               /\ UNCHANGED <<data, disk>>
          ELSE IF n = NoIdx
          THEN /\ out' = Silent
               /\ UNCHANGED <<data, disk>>
          ELSE /\ data' = [data EXCEPT !.books[sel] = RemovedFromBook(@, n)]
               /\ disk' = save_data(data')
               /\ out' = Said(<<"[Reactive Comment] Character removed from book.">>)
    /\ UNCHANGED <<pc, sel, now>>

BookCharsRemove == \E s \in Responses : RemoveFromBook(s)

\* 6: back to book_submenu
BookCharsBack ==
    /\ pc = "book_characters"
    /\ pc' = "book"
    /\ out' = Silent
    /\ UNCHANGED <<data, disk, sel, now>>

-----------------------------------------------------------------------------
(* view_master_codex *)

\* A: manage_master_characters
CodexCharacters ==
    /\ pc = "master_codex"
    /\ pc' = "master_characters"
    /\ out' = Silent
    /\ UNCHANGED <<data, disk, sel, now>>

\* B: manage_master_locations
CodexLocations ==
    /\ pc = "master_codex"
    /\ pc' = "master_locations"
    /\ out' = Silent
    /\ UNCHANGED <<data, disk, sel, now>>

\* C: manage_master_lore
CodexLore ==
    /\ pc = "master_codex"
    /\ pc' = "master_lore"
    /\ out' = Silent
    /\ UNCHANGED <<data, disk, sel, now>>

\* D: back to the main menu
CodexBack ==
    /\ pc = "master_codex"
    /\ pc' = "main"
    /\ out' = Silent
    /\ UNCHANGED <<data, disk, sel, now>>

-----------------------------------------------------------------------------
(* manage_master_characters *)

\* 1: list characters
MasterCharsList ==
    /\ pc = "master_characters"
    /\ out' = Said(IF Len(characters) = 0 THEN <<"No characters yet.">>
                   ELSE [i \in 1..Len(characters) |->
                           "- " \o characters[i].name \o " (id:" \o characters[i].id \o ") - " \o characters[i].role])
    /\ UNCHANGED <<data, disk, pc, sel, now>>

\* 2: create character
MasterCharsCreate(names, personalities) ==
    /\ pc = "master_characters"
    /\ Len(characters) < MaxChars
    /\ \E name \in names, role \in CharRoleInputs, personality \in personalities :
          /\ data' = create_master_character(data, name, role, personality, "", "", now)
          /\ out' = Said(<<CreatedLine(name)>>)
    /\ disk' = save_data(data')
    /\ UNCHANGED <<pc, sel, now>>

\* 3: edit character
EditCharacter(s) ==
    /\ pc = "master_characters"
    /\ \E name \in NameEdits, personality \in PersonalityEdits :
          LET idx == choose_from_list(CharacterLabels(data), s) IN
          IF idx = NoIdx
          THEN /\ out' = Said(NonePrinted(CharacterLabels(data)))
               /\ UNCHANGED <<data, disk>>
          ELSE /\ data' = edit_master_character(data, idx, name, "", personality, "", "")
               /\ disk' = save_data(data')
               /\ out' = Said(<<"[Reactive Comment] Master character updated. I will reflect changes across book references when possible.">>)
    /\ UNCHANGED <<pc, sel, now>>

MasterCharsEdit == \E s \in Responses : EditCharacter(s)

\* 4: delete character
DeleteCharacter(s) ==
    /\ pc = "master_characters"
    /\    LET idx == choose_from_list(CharacterLabels(data), s) IN
          IF idx = NoIdx
          THEN /\ out' = Said(NonePrinted(CharacterLabels(data)))
               /\ UNCHANGED <<data, disk>>
          ELSE /\ data' = delete_master_character(data, idx)
               /\ disk' = save_data(data')
               /\ out' = [lines |-> <<"Deleted " \o characters[idx + 1].name \o " and removed references from books.">>,
                          cleaned |-> Cardinality({i \in 1..Len(books) : characters[idx + 1].id \in Range(books[i].characters)})]
    /\ UNCHANGED <<pc, sel, now>>

MasterCharsDelete == \E s \in Responses : DeleteCharacter(s)

\* 5: back to view_master_codex
MasterCharsBack ==
    /\ pc = "master_characters"
    /\ pc' = "master_codex"
    /\ out' = Silent
    /\ UNCHANGED <<data, disk, sel, now>>

-----------------------------------------------------------------------------
(* manage_master_locations and manage_master_lore: create, delete, back *)

LocationCreate ==
    /\ pc = "master_locations"
    /\ Len(locations) < MaxLocs
    /\ data' = [data EXCEPT !.master.locations = Append(@, NewLocation(data, "Harbor", "", "", now))]
    /\ disk' = save_data(data')
    /\ out' = Said(<<"[Reactive Comment] Location added.">>)
    /\ UNCHANGED <<pc, sel, now>>

DeleteLocation(s) ==
    /\ pc = "master_locations"
    /\    LET idx == choose_from_list([i \in 1..Len(locations) |-> locations[i].name], s) IN
          IF idx = NoIdx
          THEN /\ out' = Said(NonePrinted(locations))
               /\ UNCHANGED <<data, disk>>
          ELSE /\ data' = [data EXCEPT !.master.locations = RemoveAt(@, idx + 1)]
               /\ disk' = save_data(data')
               /\ out' = Said(<<"Deleted " \o locations[idx + 1].name \o ".">>)
    /\ UNCHANGED <<pc, sel, now>>

LocationDelete == \E s \in Responses : DeleteLocation(s)

LocationBack ==
    /\ pc = "master_locations"
    /\ pc' = "master_codex"
    /\ out' = Silent
    /\ UNCHANGED <<data, disk, sel, now>>

LoreCreate ==
    /\ pc = "master_lore"
    /\ Len(lore) < MaxLore
    /\ data' = [data EXCEPT !.master.lore = Append(@, NewLore(data, "Tides", "", now))]
    /\ disk' = save_data(data')
    /\ out' = Said(<<"[Reactive Comment] Lore entry added.">>)
    /\ UNCHANGED <<pc, sel, now>>

DeleteLore(s) ==
    /\ pc = "master_lore"
    /\    LET idx == choose_from_list([i \in 1..Len(lore) |-> lore[i].title], s) IN
          IF idx = NoIdx
          THEN /\ out' = Said(NonePrinted(lore))
               /\ UNCHANGED <<data, disk>>
          ELSE /\ data' = [data EXCEPT !.master.lore = RemoveAt(@, idx + 1)]
               /\ disk' = save_data(data')
               /\ out' = Said(<<"Deleted " \o lore[idx + 1].title \o ".">>)
    /\ UNCHANGED <<pc, sel, now>>

LoreDelete == \E s \in Responses : DeleteLore(s)

LoreBack ==
    /\ pc = "master_lore"
    /\ pc' = "master_codex"
    /\ out' = Silent
    /\ UNCHANGED <<data, disk, sel, now>>

-----------------------------------------------------------------------------
(* manage_book_plot and manage_book_timeline, on the book data.books[sel];  *)
(* both return to book_submenu after one option                             *)

\* a, then 1: add beat; the beat is kept as typed
BookPlotAdd ==
    /\ pc = "book"
    /\ Len(books[sel].plot_outline) < MaxBeats
    /\ \E beat \in BeatInputs :
          data' = [data EXCEPT !.books[sel].plot_outline = Append(@, beat)]
    /\ disk' = save_data(data')
    /\ out' = Said(<<"[Reactive Comment] Added plot beat. Nice - what's the emotional core here?">>)
    /\ UNCHANGED <<pc, sel, now>>

\* a, then 2: remove beat
RemoveBeat(s) ==
    /\ pc = "book"
    /\ LET i == choose_from_list(books[sel].plot_outline, s) IN
       IF i = NoIdx
       THEN /\ out' = Said(NonePrinted(books[sel].plot_outline))
            /\ UNCHANGED <<data, disk>>
       ELSE /\ data' = [data EXCEPT !.books[sel].plot_outline = RemoveAt(@, i + 1)]
            /\ disk' = save_data(data')
            /\ out' = Said(<<"Removed: " \o books[sel].plot_outline[i + 1]>>)
    /\ UNCHANGED <<pc, sel, now>>

BookPlotRemove == \E s \in Responses : RemoveBeat(s)

\* the choices of option 2 of manage_book_timeline
EventLabels(b) == [i \in 1..Len(b.timeline) |-> b.timeline[i].when \o ": " \o b.timeline[i].desc]

\* c, then 1: add event
BookTimelineAdd ==
    /\ pc = "book"
    /\ Len(books[sel].timeline) < MaxEvents
    /\ \E when \in WhenInputs, desc \in DescInputs :
          data' = [data EXCEPT !.books[sel].timeline = Append(@, [when |-> Strip(when), desc |-> Strip(desc)])]
    /\ disk' = save_data(data')
    /\ out' = Said(<<"[Reactive Comment] Timeline event added.">>)
    /\ UNCHANGED <<pc, sel, now>>

\* c, then 2: remove event
RemoveEvent(s) ==
    /\ pc = "book"
    /\ LET idx == choose_from_list(EventLabels(books[sel]), s) IN
       IF Len(books[sel].timeline) = 0
       THEN /\ out' = Said(<<"No events.">>)
            /\ UNCHANGED <<data, disk>>
       ELSE IF idx = NoIdx
       THEN /\ out' = Silent
            /\ UNCHANGED <<data, disk>>
       ELSE /\ data' = [data EXCEPT !.books[sel].timeline = RemoveAt(@, idx + 1)]
            /\ disk' = save_data(data')
            /\ out' = Said(<<"Event removed.">>)
    /\ UNCHANGED <<pc, sel, now>>

BookTimelineRemove == \E s \in Responses : RemoveEvent(s)

-----------------------------------------------------------------------------
(* edit_book_basic_info, on the book data.books[sel].  The answer to the    *)
(* Number prompt is a sequence of Unicode code points, so that the digits   *)
(* beyond ASCII can be typed.                                               *)

\* the decimal digits (category Nd) of ASCII and of Arabic-Indic
AsciiDigits == 48..57
ArabicIndicDigits == 1632..1641

\* SUPERSCRIPT TWO, THREE and ONE: digits to str.isdigit and not decimal
SuperscriptDigits == {178, 179, 185}

\* str.isdigit()
IsDigitCps(cps) ==
    /\ Len(cps) > 0
    /\ \A i \in 1..Len(cps) : cps[i] \in AsciiDigits \cup ArabicIndicDigits \cup SuperscriptDigits

DecimalValue(c) == IF c \in AsciiDigits THEN c - 48 ELSE c - 1632

RECURSIVE DecimalsToInt(_)
DecimalsToInt(cps) ==
    IF Len(cps) = 0 THEN 0
    ELSE 10 * DecimalsToInt(SubSeq(cps, 1, Len(cps) - 1)) + DecimalValue(cps[Len(cps)])

AllDecimal(cps) == Len(cps) > 0 /\ \A i \in 1..Len(cps) : cps[i] \in AsciiDigits \cup ArabicIndicDigits

\* int(s) returns: an optional sign (43 is +, 45 is -) and then decimal digits
IntAccepts(cps) ==
    \/ AllDecimal(cps)
    \/ Len(cps) > 1 /\ cps[1] \in {43, 45} /\ AllDecimal(Tail(cps))

\* int(s), where it returns
IntOf(cps) ==
    IF AllDecimal(cps) THEN DecimalsToInt(cps)
    ELSE IF cps[1] = 45 THEN 0 - DecimalsToInt(Tail(cps))
    ELSE DecimalsToInt(Tail(cps))

\* the answers to the three prompts of edit_book_basic_info: 55 is 7, 1639 is
\* ARABIC-INDIC DIGIT SEVEN, 45 53 is -5, 120 is x, 178 is SUPERSCRIPT TWO
InfoEdits ==
    {[title |-> "", num |-> <<>>, logline |-> ""],
     [title |-> "The End", num |-> <<55>>, logline |-> "A storm"],
     [title |-> "", num |-> <<1639>>, logline |-> ""],
     [title |-> "", num |-> <<45, 53>>, logline |-> ""],
     [title |-> "", num |-> <<120>>, logline |-> "A storm"],
     [title |-> "The End", num |-> <<178>>, logline |-> ""]}

\* the book after lines 270 to 273, when int returns
EditedInfo(b, in) ==
    [b EXCEPT !.title = Or(in.title, @),
              !.number = IF IsDigitCps(in.num) THEN IntOf(in.num) ELSE @,
              !.logline = Or(in.logline, @)]

\* e: edit basic info.  When num.isdigit() holds and int(num) raises ValueError,
\* nothing catches it: the process ends after line 270 has set the title, and
\* nothing is saved.
EditBasicInfo(in) ==
    /\ pc = "book"
    /\ IF IsDigitCps(in.num) /\ ~IntAccepts(in.num)
       THEN /\ data' = [data EXCEPT !.books[sel].title = Or(in.title, @)]
            /\ pc' = "crashed"
            /\ out' = Said(<<"ValueError: invalid literal for int() with base 10">>)
            /\ UNCHANGED disk
       ELSE /\ data' = [data EXCEPT !.books[sel] = EditedInfo(@, in)]
            /\ disk' = save_data(data')
            /\ out' = Said(<<"[Reactive Comment] Book basic info updated.">>)
            /\ UNCHANGED pc
    /\ UNCHANGED <<sel, now>>

BookEditInfo == \E in \in InfoEdits : EditBasicInfo(in)

-----------------------------------------------------------------------------
(* manage_master_timeline *)

\* main menu 4
MainMasterTimeline ==
    /\ pc = "main"
    /\ pc' = "master_timeline"
    /\ out' = Silent
    /\ UNCHANGED <<data, disk, sel, now>>

\* the choices of options 2 and 3
TimelineLabels(d) == [i \in 1..Len(d.timeline) |-> d.timeline[i].when \o " - " \o d.timeline[i].desc]

\* 1: add timeline event; book_id is None (<<>>) for an empty answer
TimelineAdd ==
    /\ pc = "master_timeline"
    /\ Len(data.timeline) < MaxTimeline
    /\ \E when \in WhenInputs, desc \in DescInputs :
          data' = [data EXCEPT !.timeline = Append(@, [when |-> Strip(when), desc |-> Strip(desc), book_id |-> <<>>])]
    /\ disk' = save_data(data')
    /\ out' = Said(<<"[Reactive Comment] Master timeline updated.">>)
    /\ UNCHANGED <<pc, sel, now>>

\* 2: edit event
EditTimelineEvent(s) ==
    /\ pc = "master_timeline"
    /\ \E when \in WhenEdits :
          LET idx == choose_from_list(TimelineLabels(data), s) IN
          IF Len(data.timeline) = 0 \/ idx = NoIdx
          THEN /\ out' = Silent
               /\ UNCHANGED <<data, disk>>
          ELSE /\ data' = [data EXCEPT !.timeline[idx + 1].when = Or(when, @)]
               /\ disk' = save_data(data')
               /\ out' = Said(<<"[Reactive Comment] Master timeline event updated.">>)
    /\ UNCHANGED <<pc, sel, now>>

TimelineEdit == \E s \in Responses : EditTimelineEvent(s)

\* 3: remove event
RemoveTimelineEvent(s) ==
    /\ pc = "master_timeline"
    /\ LET idx == choose_from_list(TimelineLabels(data), s) IN
       IF idx = NoIdx
       THEN /\ out' = Said(NonePrinted(data.timeline))
            /\ UNCHANGED <<data, disk>>
       ELSE /\ data' = [data EXCEPT !.timeline = RemoveAt(@, idx + 1)]
            /\ disk' = save_data(data')
            /\ out' = Said(<<"Removed timeline event: " \o data.timeline[idx + 1].desc>>)
    /\ UNCHANGED <<pc, sel, now>>

TimelineRemove == \E s \in Responses : RemoveTimelineEvent(s)

\* 4: back to the main menu
TimelineBack ==
    /\ pc = "master_timeline"
    /\ pc' = "main"
    /\ out' = Silent
    /\ UNCHANGED <<data, disk, sel, now>>

-----------------------------------------------------------------------------
(* options 3 of manage_master_locations and manage_master_lore *)

EditLocation(s) ==
    /\ pc = "master_locations"
    /\ \E name \in PlaceEdits :
          LET idx == choose_from_list([i \in 1..Len(locations) |-> locations[i].name], s) IN
          IF idx = NoIdx
          THEN /\ out' = Said(NonePrinted(locations))
               /\ UNCHANGED <<data, disk>>
          ELSE /\ data' = [data EXCEPT !.master.locations[idx + 1].name = Or(name, @)]
               /\ disk' = save_data(data')
               /\ out' = Said(<<"[Reactive Comment] Location updated.">>)
    /\ UNCHANGED <<pc, sel, now>>

LocationEdit == \E s \in Responses : EditLocation(s)

EditLore(s) ==
    /\ pc = "master_lore"
    /\ \E title \in PlaceEdits :
          LET idx == choose_from_list([i \in 1..Len(lore) |-> lore[i].title], s) IN
          IF idx = NoIdx
          THEN /\ out' = Said(NonePrinted(lore))
               /\ UNCHANGED <<data, disk>>
          ELSE /\ data' = [data EXCEPT !.master.lore[idx + 1].title = Or(title, @)]
               /\ disk' = save_data(data')
               /\ out' = Said(<<"[Reactive Comment] Lore updated.">>)
    /\ UNCHANGED <<pc, sel, now>>

LoreEdit == \E s \in Responses : EditLore(s)

-----------------------------------------------------------------------------
(* Spec: a session on the cast, that is on books, master characters and the *)
(* characters of a book                                                      *)

Next ==
    \/ Tick /\ UNCHANGED hist
    \/ MainCreateBook /\ UNCHANGED hist
    \/ MainSelectBook /\ UNCHANGED hist
    \/ MainMasterCodex /\ UNCHANGED hist
    \/ BookCharacters /\ UNCHANGED hist
    \/ BookBack /\ UNCHANGED hist
    \/ BookCharsAdd /\ UNCHANGED hist
    \/ BookCharsCreateAndAdd(CastNames, CastPersonalities) /\ UNCHANGED hist
    \/ BookCharsEditProfile /\ UNCHANGED hist
    \/ BookCharsRemove /\ UNCHANGED hist
    \/ BookCharsBack /\ UNCHANGED hist
    \/ CodexCharacters /\ UNCHANGED hist
    \/ CodexBack /\ UNCHANGED hist
    \/ MasterCharsCreate(CastNames, CastPersonalities) /\ UNCHANGED hist
    \/ MasterCharsDelete /\ UNCHANGED hist
    \/ MasterCharsBack /\ UNCHANGED hist

Spec == Init /\ [][Next]_vars

-----------------------------------------------------------------------------
(* SpecEdit: a session in the Master Characters menu, with richer fields *)

NextEdit ==
    \/ Tick /\ UNCHANGED hist
    \/ MainMasterCodex /\ UNCHANGED hist
    \/ CodexCharacters /\ UNCHANGED hist
    \/ CodexBack /\ UNCHANGED hist
    \/ MasterCharsList /\ UNCHANGED hist
    \/ MasterCharsCreate(CodexNames, CodexPersonalities) /\ UNCHANGED hist
    \/ MasterCharsEdit /\ UNCHANGED hist
    \/ MasterCharsDelete /\ UNCHANGED hist
    \/ MasterCharsBack /\ UNCHANGED hist

SpecEdit == Init /\ [][NextEdit]_vars

-----------------------------------------------------------------------------
(* SpecCodex: a session in the Master Codex that creates and deletes entries *)
(* of the three collections; retired collects the ids of deleted entries     *)

\* the ids of the entries a step removed from a collection
Deleted(before, after) ==
    IF Len(after) < Len(before)
    THEN {before[i].id : i \in {j \in 1..Len(before) : after = RemoveAt(before, j)}}
    ELSE {}

Retire ==
    retired' = retired \cup Deleted(characters, characters')
                       \cup Deleted(locations, locations')
                       \cup Deleted(lore, lore')

NextCodex ==
    \/ Tick /\ UNCHANGED hist
    \/ MainMasterCodex /\ UNCHANGED hist
    \/ CodexCharacters /\ UNCHANGED hist
    \/ CodexLocations /\ UNCHANGED hist
    \/ CodexLore /\ UNCHANGED hist
    \/ CodexBack /\ UNCHANGED hist
    \/ MasterCharsCreate(CastNames, CastPersonalities) /\ UNCHANGED hist
    \/ MasterCharsDelete /\ Retire /\ UNCHANGED <<asked, eof>>
    \/ MasterCharsBack /\ UNCHANGED hist
    \/ LocationCreate /\ UNCHANGED hist
    \/ LocationDelete /\ Retire /\ UNCHANGED <<asked, eof>>
    \/ LocationBack /\ UNCHANGED hist
    \/ LoreCreate /\ UNCHANGED hist
    \/ LoreDelete /\ Retire /\ UNCHANGED <<asked, eof>>
    \/ LoreBack /\ UNCHANGED hist

SpecCodex == Init /\ [][NextCodex]_vars

-----------------------------------------------------------------------------
(* continuity_check: the scan for references to missing master characters *)

RECURSIVE MissingInBook(_, _, _)
MissingInBook(d, b, refs) ==
    IF Len(refs) = 0 THEN <<>>
    ELSE (IF Head(refs) \in Ids(d.master.characters) THEN <<>>
          ELSE <<"Book '" \o b.title \o "' references missing master character id " \o Head(refs)>>)
         \o MissingInBook(d, b, Tail(refs))

RECURSIVE MissingIssues(_, _)
MissingIssues(d, bs) ==
    IF Len(bs) = 0 THEN <<>>
    ELSE MissingInBook(d, Head(bs), Head(bs).characters) \o MissingIssues(d, Tail(bs))

-----------------------------------------------------------------------------
(* continuity_check, character_arc_report, thematic_cohesion and            *)
(* oracles_advice.  A line of out is one call of print or of pretty, whose  *)
(* paragraph textwrap.fill may break at WRAP columns.                       *)

\* the keys of a dictionary filled from the list xs, in insertion order
RECURSIVE FirstSeen(_, _)
FirstSeen(xs, seen) ==
    IF Len(xs) = 0 THEN <<>>
    ELSE IF Head(xs) \in seen THEN FirstSeen(Tail(xs), seen)
    ELSE <<Head(xs)>> \o FirstSeen(Tail(xs), seen \cup {Head(xs)})

\* repr of a list of strings
RECURSIVE ReprItems(_)
ReprItems(xs) ==
    IF Len(xs) = 0 THEN ""
    ELSE IF Len(xs) = 1 THEN "'" \o xs[1] \o "'"
    ELSE "'" \o xs[1] \o "', " \o ReprItems(Tail(xs))

ListRepr(xs) == "[" \o ReprItems(xs) \o "]"

LowerNames(d) == [i \in 1..Len(d.master.characters) |-> Lower(d.master.characters[i].name)]

\* name_to_ids[name]: the ids appended under a lower-cased name, in the order of the collection
name_to_ids(d, name) ==
    LET at == SelectSeq([i \in 1..Len(d.master.characters) |-> i], LAMBDA i : LowerNames(d)[i] = name)
    IN  [k \in 1..Len(at) |-> d.master.characters[at[k]].id]

DuplicateIssue(name, ids) ==
    "Multiple master characters share name '" \o name \o "' with ids " \o ListRepr(ids) \o " - possible duplication."

\* a variant that reports a name only when three or more characters share it
DuplicateIssues_ThreeOrMore(d, names) ==
    LET shared == SelectSeq(names, LAMBDA n : Len(name_to_ids(d, n)) > 2)
    IN  [k \in 1..Len(shared) |-> DuplicateIssue(shared[k], name_to_ids(d, shared[k]))]

\* a variant that reports every name, shared or not
DuplicateIssues_EveryName(d, names) ==
    [k \in 1..Len(names) |-> DuplicateIssue(names[k], name_to_ids(d, names[k]))]

\* the loop over name_to_ids.items()
DuplicateIssues(d, names) ==
    LET shared == SelectSeq(names, LAMBDA n : Len(name_to_ids(d, n)) > 1)
    IN  [k \in 1..Len(shared) |-> DuplicateIssue(shared[k], name_to_ids(d, shared[k]))]

\* the list issues of continuity_check
continuity_check(d) == MissingIssues(d, d.books) \o DuplicateIssues(d, FirstSeen(LowerNames(d), {}))

ContinuityLines(issues) ==
    IF Len(issues) = 0
    THEN <<"No obvious continuity issues found. (This is a lightweight scan.)">>
    ELSE <<"Potential continuity issues found:">> \o [k \in 1..Len(issues) |-> "- " \o issues[k]]

\* the lines of character_arc_report for the character c
Appearances(d, c) == SelectSeq(d.books, LAMBDA b : c.id \in Range(b.characters))

ArcLines(d, c) ==
    <<"Character: " \o c.name,
      "Master role: " \o c.role,
      "Series arc: " \o c.series_arc,
      "Personality analysis: " \o c.personality_analysis>>
    \o (IF Len(Appearances(d, c)) = 0
        THEN <<"(Character not assigned to any book yet.)">>
        ELSE <<"Appearances by book:">>
             \o [k \in 1..Len(Appearances(d, c)) |->
                   "- " \o Appearances(d, c)[k].title
                   \o ": role: " \o DictGet(Appearances(d, c)[k].book_char_profiles, c.id, EmptyProfile).role_in_book
                   \o "; notes: " \o DictGet(Appearances(d, c)[k].book_char_profiles, c.id, EmptyProfile).notes])

\* every theme tag of every book, lower-cased, in the order the loops meet them
RECURSIVE AllThemes(_)
AllThemes(bs) ==
    IF Len(bs) = 0 THEN <<>>
    ELSE [k \in 1..Len(Head(bs).themes) |-> Lower(Head(bs).themes[k])] \o AllThemes(Tail(bs))

\* theme_counts[t]
ThemeCount(tags, t) == Len(SelectSeq(tags, LAMBDA x : x = t))

NoThemesLine == "No themes recorded across books. Consider tagging themes for each book."
WeakThemesLine == "Some themes are not strong across the series; consider reinforcing themes that define your series identity."
SteadyThemesLine == "Observations: Themes appear consistently across books (as far as recorded)."

\* total_books
TotalBooks(d) == IF Len(d.books) > 1 THEN Len(d.books) ELSE 1

\* a variant that also flags a theme present in exactly half of the books
UnderRepresented_AtMostHalf(d, tags) ==
    SelectSeq(FirstSeen(tags, {}), LAMBDA t : 2 * ThemeCount(tags, t) <= TotalBooks(d))

\* missing: cnt < total_books / 2, a division of floats
UnderRepresented(d, tags) ==
    SelectSeq(FirstSeen(tags, {}), LAMBDA t : 2 * ThemeCount(tags, t) < TotalBooks(d))

thematic_cohesion(d) ==
    LET tags == AllThemes(d.books)
        keys == FirstSeen(tags, {})
    IN  IF Len(keys) = 0 THEN <<NoThemesLine>>
        ELSE <<"Themes and coverage across books:">>
             \o [k \in 1..Len(keys) |-> "- " \o keys[k] \o ": appears in " \o ToString(ThemeCount(tags, keys[k])) \o " book(s)"]
             \o (IF Len(UnderRepresented(d, tags)) > 0
                 THEN <<"Observations:", WeakThemesLine>>
                 ELSE <<SteadyThemesLine>>)

ConflictHead(a, b) == "Possible conflicts between " \o a \o " and " \o b \o ":"
ClashLine(a, b) == "1) Clashing motivations: " \o a \o " wants X while " \o b \o " needs Y, forcing them to collide."
NoTwoNamesLine == "I couldn't identify two character names from the master codex in your query. Try writing both character names exactly as they are in Master Characters."

\* mentioned: the master names that occur in the lower-cased query
Mentioned(d, qlower) == SelectSeq(CharacterNames(d), LAMBDA name : Contains(qlower, Lower(name)))

\* the lines of oracles_advice for the query typed
oracles_advice(d, query) ==
    LET q == Strip(query)
        qlower == Lower(q)
        mentioned == Mentioned(d, qlower)
    IN  IF q = "" THEN <<"No query entered.">>
        ELSE IF Contains(qlower, "conflict") /\ Contains(qlower, "between")
        THEN IF Len(mentioned) >= 2
             THEN <<ConflictHead(mentioned[1], mentioned[2]),
                    ClashLine(mentioned[1], mentioned[2]),
                    "2) Past secret revealed: one holds a secret that undermines trust.",
                    "3) Resource/goal competition: both pursue the same scarce resource or position.",
                    "Consider aligning conflict to your series themes for stronger cohesion.">>
             ELSE <<NoTwoNamesLine>>
        ELSE IF Contains(qlower, "escalate") \/ Contains(qlower, "escalation") \/ Contains(qlower, "stakes")
        THEN <<"Ways to escalate stakes:",
               "- Personal stakes: threaten what the protagonist values most (relationships, reputation, self-image).",
               "- Societal stakes: push the world toward a tipping point (war, famine, collapse).",
               "- Moral stakes: force character to choose between two bad options, revealing values.",
               "- Reveal a costly secret that changes goals and alliances.">>
        ELSE <<"General advice:",
               "Use contrasts: pair proactive characters with reactive ones. Use consequences: each choice should change the world irreversibly. If unsure, describe a scene and I can offer targeted edits.">>

-----------------------------------------------------------------------------
(* series_analysis_menu, and oracles_advice from the main menu *)

\* main menu 5
MainSeriesAnalysis ==
    /\ pc = "main"
    /\ pc' = "series_analysis"
    /\ out' = Silent
    /\ UNCHANGED <<data, disk, sel, now>>

\* 1: continuity check
AnalysisContinuity ==
    /\ pc = "series_analysis"
    /\ out' = Said(ContinuityLines(continuity_check(data)))
    /\ UNCHANGED <<data, disk, pc, sel, now>>

\* 2: character arc report
ArcReport(s) ==
    /\ pc = "series_analysis"
    /\ LET idx == choose_from_list(CharacterNames(data), s) IN
       IF idx = NoIdx
       THEN out' = Said(NonePrinted(CharacterNames(data)))
       ELSE out' = Said(ArcLines(data, characters[idx + 1]))
    /\ UNCHANGED <<data, disk, pc, sel, now>>

AnalysisArcReport == \E s \in Responses : ArcReport(s)

\* 3: thematic cohesion
AnalysisThemes ==
    /\ pc = "series_analysis"
    /\ out' = Said(thematic_cohesion(data))
    /\ UNCHANGED <<data, disk, pc, sel, now>>

\* 4: back to the main menu
AnalysisBack ==
    /\ pc = "series_analysis"
    /\ pc' = "main"
    /\ out' = Silent
    /\ UNCHANGED <<data, disk, sel, now>>

\* main menu 6: the oracle answers one query and returns to the main menu
Oracle(query) ==
    /\ pc = "main"
    /\ out' = Said(oracles_advice(data, query))
    /\ UNCHANGED <<data, disk, pc, sel, now>>

MainOracle == \E query \in Queries : Oracle(query)

-----------------------------------------------------------------------------
(* SpecLoaded: a session that only reads, on a document load_data found on  *)
(* disk: written by an earlier run and possibly edited by hand since        *)

LoadedCast == create_master_character(create_master_character(DefaultData(0), "Ava", "Hero", "kind", "", "", 0),
                                      "Rex", "Rival", "blunt", "", "", 0).master.characters

\* the ids a hand-edited book may refer to: two of the cast, one of nobody
RefPool == {"char_1_0", "char_2_0", "char_9_0"}

LoadedRefs == UNION {[1..n -> RefPool] : n \in 0..MaxRefs}

LoadedBook(n, refs) ==
    [NewBook([books |-> [i \in 1..(n - 1) |-> 0]], "The Start", ToString(n), "", "", 0)
       EXCEPT !.characters = refs,
              !.book_char_profiles = [c \in Range(refs) |-> EmptyProfile]]

LoadedShelves ==
    {<<LoadedBook(1, r)>> : r \in LoadedRefs}
    \cup {<<LoadedBook(1, r[1]), LoadedBook(2, r[2])>> : r \in LoadedRefs \X LoadedRefs}

LoadedDocs ==
    {[DefaultData(0) EXCEPT !.master.characters = SubSeq(LoadedCast, 1, k), !.books = shelf] :
        k \in 0..2, shelf \in LoadedShelves}

InitLoaded ==
    /\ now = 0
    /\ data \in LoadedDocs
    /\ disk = data
    /\ pc = "main"
    /\ sel = 0
    /\ out = Silent
    /\ retired = {}
    /\ asked = NotAsked
    /\ eof = FALSE

NextLoaded ==
    \/ MainSelectBook /\ UNCHANGED hist
    \/ BookCharacters /\ UNCHANGED hist
    \/ BookBack /\ UNCHANGED hist
    \/ BookCharsList /\ UNCHANGED hist
    \/ BookCharsBack /\ UNCHANGED hist

SpecLoaded == InitLoaded /\ [][NextLoaded]_vars

-----------------------------------------------------------------------------
(* SpecSelect: a session of list selections on a document that an earlier   *)
(* run wrote: two books, the first with a beat, an event and a character,  *)
(* and an entry in every master collection; asked records the answer that  *)
(* choose_from_list read                                                    *)

SelectBookDoc ==
    [NewBook(DefaultData(0), "The Start", "1", "", "", 0)
       EXCEPT !.plot_outline = <<"Inciting incident">>,
              !.timeline = <<[when |-> "Day 1", desc |-> "Storm"]>>,
              !.characters = <<"char_1_0">>,
              !.book_char_profiles = [c \in {"char_1_0"} |-> EmptyProfile]]

SelectDoc ==
    [DefaultData(0) EXCEPT
        !.books = <<SelectBookDoc, NewBook([books |-> <<SelectBookDoc>>], "The End", "2", "", "", 0)>>,
        !.master.characters = SubSeq(LoadedCast, 1, 1),
        !.master.locations = <<NewLocation(DefaultData(0), "Harbor", "", "", 0)>>,
        !.master.lore = <<NewLore(DefaultData(0), "Tides", "", 0)>>,
        !.timeline = <<[when |-> "Day 1", desc |-> "Storm", book_id |-> <<>>]>>]

InitSelect ==
    /\ now = 0
    /\ data = SelectDoc
    /\ disk = save_data(SelectDoc)
    /\ pc = "main"
    /\ sel = 0
    /\ out = Silent
    /\ retired = {}
    /\ asked = NotAsked
    /\ eof = FALSE

\* the step read the answer s at the prompt of a list selection
Ask(prompt, items, s) == asked' = Asked(prompt, items, s) /\ UNCHANGED <<retired, eof>>

\* the step read no answer to a list selection
NoAsk == asked' = NotAsked /\ UNCHANGED <<retired, eof>>

NextSelect ==
    \/ \E s \in Responses : SelectBook(s) /\ Ask("Select a book number (or press Enter to cancel): ", books, s)
    \/ BookBack /\ NoAsk
    \/ \E s \in Responses : RemoveBeat(s) /\ Ask("Select beat to remove: ", books[sel].plot_outline, s)
    \/ \E s \in Responses : RemoveEvent(s) /\ Ask("Select event to remove: ", books[sel].timeline, s)
    \/ BookCharacters /\ NoAsk
    \/ \E s \in Responses : EditProfile(s) /\ Ask("Select character to edit: ", books[sel].characters, s)
    \/ \E s \in Responses : RemoveFromBook(s) /\ Ask("Select character to remove: ", books[sel].characters, s)
    \/ BookCharsBack /\ NoAsk
    \/ MainMasterCodex /\ NoAsk
    \/ CodexCharacters /\ NoAsk
    \/ CodexLocations /\ NoAsk
    \/ CodexLore /\ NoAsk
    \/ CodexBack /\ NoAsk
    \/ \E s \in Responses : EditCharacter(s) /\ Ask("Select character to edit: ", characters, s)
    \/ \E s \in Responses : DeleteCharacter(s) /\ Ask("Select character to delete: ", characters, s)
    \/ MasterCharsBack /\ NoAsk
    \/ \E s \in Responses : EditLocation(s) /\ Ask("Select location to edit: ", locations, s)
    \/ \E s \in Responses : DeleteLocation(s) /\ Ask("Select location to delete: ", locations, s)
    \/ LocationBack /\ NoAsk
    \/ \E s \in Responses : EditLore(s) /\ Ask("Select lore entry to edit: ", lore, s)
    \/ \E s \in Responses : DeleteLore(s) /\ Ask("Select lore to delete: ", lore, s)
    \/ LoreBack /\ NoAsk
    \/ MainMasterTimeline /\ NoAsk
    \/ \E s \in Responses : EditTimelineEvent(s) /\ Ask("Select event to edit: ", data.timeline, s)
    \/ \E s \in Responses : RemoveTimelineEvent(s) /\ Ask("Select event to remove: ", data.timeline, s)
    \/ TimelineBack /\ NoAsk
    \/ MainSeriesAnalysis /\ NoAsk
    \/ \E s \in Responses : ArcReport(s) /\ Ask("Select character for arc report: ", characters, s)
    \/ AnalysisBack /\ NoAsk

SpecSelect == InitSelect /\ [][NextSelect]_vars

-----------------------------------------------------------------------------
(* SpecAnalysis: continuity_check and oracles_advice on a document that     *)
(* load_data found on disk, with up to MaxCast master characters whose      *)
(* names may repeat and with a book whose references may dangle             *)

CastNamePool == {"Ava", "ava", "Rex"}

RECURSIVE CastOf(_)
CastOf(names) ==
    IF Len(names) = 0 THEN DefaultData(0)
    ELSE create_master_character(CastOf(SubSeq(names, 1, Len(names) - 1)), names[Len(names)], "Hero", "", "", "", 0)

AnalysisCasts == {CastOf(names).master.characters : names \in UNION {[1..n -> CastNamePool] : n \in 0..MaxCast}}

AnalysisDocs ==
    {[DefaultData(0) EXCEPT !.master.characters = cast, !.books = shelf] :
        cast \in AnalysisCasts, shelf \in {<<>>} \cup {<<LoadedBook(1, r)>> : r \in LoadedRefs}}

InitAnalysis ==
    /\ now = 0
    /\ data \in AnalysisDocs
    /\ disk = data
    /\ pc = "main"
    /\ sel = 0
    /\ out = Silent
    /\ retired = {}
    /\ asked = NotAsked
    /\ eof = FALSE

\* the query typed at the prompt of oracles_advice
AskedOracle(query) == [prompt |-> "oracle", size |-> 0, response |-> query]

NextAnalysis ==
    \/ MainSeriesAnalysis /\ NoAsk
    \/ AnalysisContinuity /\ NoAsk
    \/ AnalysisBack /\ NoAsk
    \/ \E query \in Queries : Oracle(query) /\ asked' = AskedOracle(query) /\ UNCHANGED <<retired, eof>>

SpecAnalysis == InitAnalysis /\ [][NextAnalysis]_vars

-----------------------------------------------------------------------------
(* SpecThemes: thematic_cohesion on a document found on disk with up to     *)
(* MaxShelf books that carry theme tags; no menu writes a theme             *)

ThemeLists == {<<>>, <<"Betrayal">>, <<"betrayal", "Hope">>, <<"Hope", "hope">>}

ThemedBook(n, themes) ==
    [NewBook([books |-> [i \in 1..(n - 1) |-> 0]], "Book", ToString(n), "", "", 0) EXCEPT !.themes = themes]

ThemedShelves == UNION {{[i \in 1..n |-> ThemedBook(i, t[i])] : t \in [1..n -> ThemeLists]} : n \in 0..MaxShelf}

InitThemes ==
    /\ now = 0
    /\ data \in {[DefaultData(0) EXCEPT !.books = shelf] : shelf \in ThemedShelves}
    /\ disk = data
    /\ pc = "main"
    /\ sel = 0
    /\ out = Silent
    /\ retired = {}
    /\ asked = NotAsked
    /\ eof = FALSE

NextThemes ==
    \/ MainSeriesAnalysis /\ UNCHANGED hist
    \/ AnalysisThemes /\ UNCHANGED hist
    \/ AnalysisBack /\ UNCHANGED hist

SpecThemes == InitThemes /\ [][NextThemes]_vars

-----------------------------------------------------------------------------
(* SpecBooks: a session on the books themselves: creation, plot beats,      *)
(* timeline events and basic info; asked records the answers to             *)
(* edit_book_basic_info                                                     *)

AskedInfo(in) == [prompt |-> "edit_book_basic_info", size |-> 0, response |-> in]

NextBooks ==
    \/ Tick /\ NoAsk
    \/ MainCreateBook /\ NoAsk
    \/ MainSelectBook /\ NoAsk
    \/ BookBack /\ NoAsk
    \/ BookPlotAdd /\ NoAsk
    \/ BookPlotRemove /\ NoAsk
    \/ BookTimelineAdd /\ NoAsk
    \/ BookTimelineRemove /\ NoAsk
    \/ \E in \in InfoEdits : EditBasicInfo(in) /\ asked' = AskedInfo(in) /\ UNCHANGED <<retired, eof>>

SpecBooks == Init /\ [][NextBooks]_vars

-----------------------------------------------------------------------------
(* SpecEOF: a session in which standard input may reach its end.  From then *)
(* on input_prompt returns "" at every prompt, so the menu loops can only   *)
(* take their else branch.  A handler that meets the end of input midway    *)
(* runs on with empty answers, as it does when the user types them.         *)

\* the process has ended: by option 7, or by an exception that nothing catches
Terminated == {"exited", "crashed"}

\* the else branch of a menu loop
UnknownOption ==
    /\ pc \in MenuPrompts
    /\ out' = Said(<<IF pc = "main" THEN "Unknown option. Please choose 1-7." ELSE "Unknown option.">>)
    /\ UNCHANGED <<data, disk, pc, sel, now>>

\* main menu 7: save and exit
MainExit ==
    /\ pc = "main"
    /\ disk' = save_data(data)
    /\ out' = Said(<<"Data saved. Goodbye - keep writing.">>)
    /\ pc' = "exited"
    /\ UNCHANGED <<data, sel, now>>

\* input() raises EOFError for the first time; the prompt reads ""
ReachEOF ==
    /\ pc \in MenuPrompts
    /\ ~eof
    /\ eof' = TRUE
    /\ out' = Said(<<IF pc = "main" THEN "Unknown option. Please choose 1-7." ELSE "Unknown option.">>)
    /\ UNCHANGED <<data, disk, pc, sel, now, retired, asked>>

\* a step for which the user types an answer
Typed(A) == ~eof /\ A /\ UNCHANGED hist

NextEOF ==
    \/ Typed(MainCreateBook)
    \/ Typed(MainSelectBook)
    \/ Typed(BookEditInfo)
    \/ Typed(BookBack)
    \/ Typed(MainMasterCodex)
    \/ Typed(CodexCharacters)
    \/ Typed(MasterCharsBack)
    \/ Typed(CodexBack)
    \/ Typed(MainMasterTimeline)
    \/ Typed(TimelineBack)
    \/ Typed(MainSeriesAnalysis)
    \/ Typed(AnalysisBack)
    \/ Typed(MainExit)
    \/ UnknownOption /\ UNCHANGED hist
    \/ ReachEOF

\* the process runs on: a prompt at the end of input returns at once
SpecEOF == Init /\ [][NextEOF]_vars /\ WF_vars(eof /\ UnknownOption /\ UNCHANGED hist)

-----------------------------------------------------------------------------
(* Properties *)

Last(s) == s[Len(s)]

\* a step of option 4 of manage_master_characters that deletes the character at position i
DeleteStep(i) ==
    /\ pc = "master_characters"
    /\ Len(characters') < Len(characters)
    /\ characters' = RemoveAt(characters, i)

AddedLine == "[Reactive Comment] Character added to book."
UpdatedLine == "[Reactive Comment] Master character updated. I will reflect changes across book references when possible."

\* the last handler printed the confirmation of create_master_character
JustCreated == Len(out.lines) = 1 /\ \E name \in CastNames \cup CodexNames : out.lines[1] = CreatedLine(name)

\* C1: after a master character is deleted, no book's reference list holds its
\* id and no book's profile map has an entry under its id.
C1_DeleteLeavesNoReference ==
    [][\A i \in 1..Len(characters) :
          DeleteStep(i) =>
             \A b \in 1..Len(books') :
                /\ characters[i].id \notin Range(books'[b].characters)
                /\ characters[i].id \notin DOMAIN books'[b].book_char_profiles]_vars

\* a deletion has just gone into two books that referred to the character
C1_Witness == pc = "master_characters" /\ out.cleaned = 2

\* C2: a deletion of the master character C changes nothing else: books that
\* did not refer to C are unchanged, books that did keep their other references
\* in order and the other profiles, every other master character is unchanged
\* and is still assigned to the books it was assigned to, and locations, lore,
\* master timeline and series are unchanged.
C2_DeleteChangesNothingElse ==
    [][\A i \in 1..Len(characters) :
          DeleteStep(i) =>
             /\ Len(books') = Len(books)
             /\ \A b \in 1..Len(books) :
                   IF characters[i].id \notin Range(books[b].characters)
                   THEN books'[b] = books[b]
                   ELSE /\ books'[b].characters = SelectSeq(books[b].characters, LAMBDA x : x # characters[i].id)
                        /\ \A k \in (DOMAIN books[b].book_char_profiles) \ {characters[i].id} :
                              /\ k \in DOMAIN books'[b].book_char_profiles
                              /\ books'[b].book_char_profiles[k] = books[b].book_char_profiles[k]
                        /\ [books'[b] EXCEPT !.characters = <<>>, !.book_char_profiles = EmptyDict]
                              = [books[b] EXCEPT !.characters = <<>>, !.book_char_profiles = EmptyDict]
             /\ \A j \in (1..Len(characters)) \ {i} :
                   \A b \in 1..Len(books) :
                      characters[j].id \in Range(books[b].characters)
                         => /\ characters[j].id \in Range(books'[b].characters)
                            /\ characters[j].id \in DOMAIN books'[b].book_char_profiles
             /\ locations' = locations
             /\ lore' = lore
             /\ data'.timeline = data.timeline
             /\ data'.series = data.series
             /\ data'.meta = data.meta]_vars

\* C3: in every book the keys of the profile map are the ids of the reference
\* list, which holds no id twice; a reference just added has the empty profile.
C3_ProfilesInSync ==
    /\ \A b \in 1..Len(books) :
          /\ DOMAIN books[b].book_char_profiles = Range(books[b].characters)
          /\ Cardinality(Range(books[b].characters)) = Len(books[b].characters)
    /\ (pc = "book_characters" /\ out.lines = <<AddedLine>>)
          => books[sel].book_char_profiles[Last(books[sel].characters)] = EmptyProfile

\* a character was just added to a book whose first character has an edited profile
C3_Witness ==
    /\ pc = "book_characters"
    /\ out.lines = <<AddedLine>>
    /\ Len(books[sel].characters) = 2
    /\ books[sel].book_char_profiles[books[sel].characters[1]].role_in_book = "Foil"

\* C4: every id of every book's reference list resolves to a master character,
\* so the scan of continuity_check for missing references reports nothing.
C4_ReferencesResolve ==
    /\ \A b \in 1..Len(books) :
          \A k \in 1..Len(books[b].characters) :
             find_master_character(data, books[b].characters[k]) # <<>>
    /\ MissingIssues(data, books) = <<>>

\* a deletion has just gone into a book, and a book still refers to a character
C4_Witness ==
    /\ pc = "master_characters"
    /\ out.cleaned >= 1
    /\ \E b \in 1..Len(books) : Len(books[b].characters) >= 1

\* C5: a creation in a master collection gives the new entry an id that no
\* entry already in the collection has.
C5_CreateGivesFreshId ==
    /\ (pc = "master_characters" /\ JustCreated)
          => Last(characters).id \notin Ids(SubSeq(characters, 1, Len(characters) - 1))
    /\ (pc = "master_locations" /\ out.lines = <<"[Reactive Comment] Location added.">>)
          => Last(locations).id \notin Ids(SubSeq(locations, 1, Len(locations) - 1))
    /\ (pc = "master_lore" /\ out.lines = <<"[Reactive Comment] Lore entry added.">>)
          => Last(lore).id \notin Ids(SubSeq(lore, 1, Len(lore) - 1))

\* C6: the id of a deleted entry of a master collection is never given to an
\* entry created later in that collection.
C6_NoIdReuse ==
    /\ (pc = "master_characters" /\ JustCreated) => Last(characters).id \notin retired
    /\ (pc = "master_locations" /\ out.lines = <<"[Reactive Comment] Location added.">>)
          => Last(locations).id \notin retired
    /\ (pc = "master_lore" /\ out.lines = <<"[Reactive Comment] Lore entry added.">>)
          => Last(lore).id \notin retired

\* C7: after option 3 of the Book Characters menu the new character's id is in
\* the selected book's reference list, with an empty profile.
C7_CreateAndAddAdds ==
    (pc = "book_characters" /\ JustCreated)
       => /\ Last(characters).id \in Range(books[sel].characters)
          /\ Last(characters).id \in DOMAIN books[sel].book_char_profiles
          /\ books[sel].book_char_profiles[Last(characters).id] = EmptyProfile

C9_AnalysisFollowsPersonality ==
    \A i \in 1..Len(characters) :
       characters[i].personality_analysis = analyze_personality_text(characters[i].personality)

\* a character was just edited and carries the personality text typed in the edit
C9_Witness ==
    /\ pc = "master_characters"
    /\ out.lines = <<UpdatedLine>>
    /\ \E i \in 1..Len(characters) :
          /\ characters[i].personality = "Curious; not agreeable"
          /\ characters[i].personality_analysis = SentAgreeable \o " " \o SentLowAgreeable \o " " \o SentOpen

\* C10: option 1 of the Book Characters menu prints one entry per id of the
\* book's reference list, an id without a master character marked as missing.
C10_ListShowsEveryReference ==
    [][(pc = "book_characters" /\ pc' = "book_characters" /\ Len(books[sel].characters) > 0)
          => /\ Len(out'.lines) = Len(books[sel].characters)
             /\ \A k \in 1..Len(books[sel].characters) :
                   find_master_character(data, books[sel].characters[k]) = <<>>
                      => Contains(out'.lines[k], "missing")]_vars

\* an answer that is empty, not a number, or out of the range 1..n
IsCancel(s, n) ==
    \/ Strip(s) = ""
    \/ ~IsInt(Strip(s))
    \/ StrToInt(Strip(s)) < 1
    \/ StrToInt(Strip(s)) > n

\* C11: a step that reads an empty, non-numeric or out-of-range answer at a
\* list selection prompt leaves the document in memory and the persisted
\* document as they were, and the program prompts in the menu it was in.
C11_CancelChangesNothing ==
    [][(asked'.prompt # "" /\ IsCancel(asked'.response, asked'.size))
          => /\ data' = data
             /\ disk' = disk
             /\ pc' = pc
             /\ pc' \in MenuPrompts]_vars

\* "0" was just answered where one beat could be removed, and the beat is still there
C11_Witness ==
    /\ pc = "book"
    /\ asked = [prompt |-> "Select beat to remove: ", size |-> 1, response |-> "0"]
    /\ Len(books[sel].plot_outline) = 1

StartsWith(s, prefix) == Len(s) >= Len(prefix) /\ SubSeq(s, 1, Len(prefix)) = prefix

\* the last handler was oracles_advice on a query that holds "conflict" and "between"
ConflictAsked ==
    /\ pc = "main"
    /\ asked.prompt = "oracle"
    /\ Strip(asked.response) # ""
    /\ Contains(Lower(asked.response), "conflict")
    /\ Contains(Lower(asked.response), "between")

\* the positions of the master characters whose name occurs in the query
NamedAt == {i \in 1..Len(characters) : Contains(Lower(asked.response), Lower(characters[i].name))}

\* C12: on a query with "conflict" and "between" the oracle prints the conflict
\* template exactly when two distinct master names occur in the query, and then
\* with the first two such names in the order of the collection; otherwise it
\* prints that it could not identify two names.
C12_ConflictNeedsTwoNames ==
    ConflictAsked =>
       IF Cardinality({characters[i].name : i \in NamedAt}) >= 2
       THEN LET first == CHOOSE i \in NamedAt : \A j \in NamedAt : i <= j
                second == CHOOSE i \in NamedAt :
                             /\ characters[i].name # characters[first].name
                             /\ \A j \in NamedAt : characters[j].name # characters[first].name => i <= j
            IN  /\ out.lines[1] = ConflictHead(characters[first].name, characters[second].name)
                /\ out.lines[2] = ClashLine(characters[first].name, characters[second].name)
       ELSE out.lines = <<NoTwoNamesLine>>

NoIssuesLine == "No obvious continuity issues found. (This is a lightweight scan.)"

\* the last handler was continuity_check
ContinuityRan ==
    /\ pc = "series_analysis"
    /\ Len(out.lines) > 0
    /\ out.lines[1] \in {NoIssuesLine, "Potential continuity issues found:"}

\* every reference of every book is the id of a master character
AllResolve == \A b \in 1..Len(books) : Range(books[b].characters) \subseteq Ids(characters)

\* C13, as stated: after the scan, when every reference resolves and no two master characters
\* have the same name, continuity_check has no issue to report.
C13_CleanDocumentNoIssues ==
    (ContinuityRan /\ AllResolve
        /\ \A i, j \in 1..Len(characters) : i # j => characters[i].name # characters[j].name)
       => /\ continuity_check(data) = <<>>
          /\ out.lines = <<NoIssuesLine>>

\* C13, amended: after the scan, when every reference resolves and no two master characters
\* have the same name once lower-cased, continuity_check has no issue to report.
C13_CleanDocumentNoIssues_CaseFolded ==
    (ContinuityRan /\ AllResolve
        /\ \A i, j \in 1..Len(characters) : i # j => Lower(characters[i].name) # Lower(characters[j].name))
       => /\ continuity_check(data) = <<>>
          /\ out.lines = <<NoIssuesLine>>

\* the scan has just run on two characters of different names and a book that refers to both
C13_Witness ==
    /\ ContinuityRan
    /\ Len(characters) >= 2
    /\ \A i, j \in 1..Len(characters) : i # j => Lower(characters[i].name) # Lower(characters[j].name)
    /\ Len(books) = 1
    /\ books[1].characters = <<"char_1_0", "char_2_0">>
    /\ out.lines = <<NoIssuesLine>>

\* the ids of the characters whose lower-cased name is n, in the order of the collection
RECURSIVE IdsOfName(_, _)
IdsOfName(cs, n) ==
    IF Len(cs) = 0 THEN <<>>
    ELSE (IF Lower(Head(cs).name) = n THEN <<Head(cs).id>> ELSE <<>>) \o IdsOfName(Tail(cs), n)

\* the issues of the scan that are about the name n
IssuesAbout(n) == SelectSeq(continuity_check(data), LAMBDA it : Contains(it, "share name '" \o n \o "'"))

RECURSIVE Occurrences(_, _)
Occurrences(t, n) ==
    IF n = 0 THEN 0
    ELSE Occurrences(t, n - 1) + Cardinality({k \in 1..Len(books[n].themes) : Lower(books[n].themes[k]) = t})

\* the lower-cased theme tags of the document
Tags == UNION {{Lower(books[b].themes[k]) : k \in 1..Len(books[b].themes)} : b \in 1..Len(books)}

\* the last handler was thematic_cohesion
ThemesRan ==
    /\ pc = "series_analysis"
    /\ Len(out.lines) > 0
    /\ out.lines[1] \in {NoThemesLine, "Themes and coverage across books:"}

\* C15: thematic_cohesion prints, for each lower-cased theme tag, the number of
\* its occurrences in all books' theme lists; it prints the observation about
\* weak themes exactly when some tag occurs fewer times than half of
\* max(1, number of books), and the observation about steady themes otherwise;
\* with no tag at all it prints only that no themes are recorded.
C15_ThemeCoverage ==
    ThemesRan =>
       IF Tags = {}
       THEN out.lines = <<NoThemesLine>>
       ELSE /\ Len(out.lines) >= 1 + Cardinality(Tags)
            /\ \A t \in Tags :
                  \E k \in 2..(1 + Cardinality(Tags)) :
                     out.lines[k] = "- " \o t \o ": appears in " \o ToString(Occurrences(t, Len(books))) \o " book(s)"
            /\ NoThemesLine \notin Range(out.lines)
            /\ (WeakThemesLine \in Range(out.lines))
                  <=> \E t \in Tags : 2 * Occurrences(t, Len(books)) < (IF Len(books) >= 1 THEN Len(books) ELSE 1)
            /\ (SteadyThemesLine \in Range(out.lines)) <=> (WeakThemesLine \notin Range(out.lines))

\* four books, "betrayal" in one of them only: the observation about weak themes was printed
C15_Witness ==
    /\ ThemesRan
    /\ Len(books) = 4
    /\ Occurrences("betrayal", 4) = 1
    /\ WeakThemesLine \in Range(out.lines)

\* C16: edit_book_basic_info does not fail; it keeps the title and the logline
\* for an empty answer and replaces them otherwise; it keeps the number for an
\* answer that is empty or that int does not accept, and replaces it by the
\* integer otherwise; it changes no other field of the book and no other book.
C16_EditKeepsOrReplaces ==
    [][asked'.prompt = "edit_book_basic_info" =>
          LET in == asked'.response IN
          /\ pc' # "crashed"
          /\ books'[sel].title = (IF in.title = "" THEN books[sel].title ELSE in.title)
          /\ books'[sel].number = (IF IntAccepts(in.num) THEN IntOf(in.num) ELSE books[sel].number)
          /\ books'[sel].logline = (IF in.logline = "" THEN books[sel].logline ELSE in.logline)
          /\ [books'[sel] EXCEPT !.title = "", !.number = 0, !.logline = ""]
                = [books[sel] EXCEPT !.title = "", !.number = 0, !.logline = ""]
          /\ Len(books') = Len(books)
          /\ \A b \in (1..Len(books)) \ {sel} : books'[b] = books[b]]_vars

\* C17: the ids of the books are pairwise distinct in every state, and every
\* step keeps each book at its position with its id: books are appended and
\* are never removed or reordered.
C17_BooksOnlyAppended ==
    /\ [](\A i, j \in 1..Len(books) : i # j => books[i].id # books[j].id)
    /\ [][/\ Len(books') >= Len(books)
          /\ \A i \in 1..Len(books) : books'[i].id = books[i].id]_vars

\* two books created at different seconds, the first with its beat removed and its title edited
C17_Witness ==
    /\ Len(books) = 2
    /\ books[1].created_at # books[2].created_at
    /\ books[1].title = "The End"
    /\ out.lines = <<"Removed: Inciting incident">>

\* C18: the process ends only by option 7 of the main menu, with the document
\* saved; once standard input is at its end the process never ends, and it
\* answers "Unknown option" in the menu loop it is in, again and again.
C18_OnlyExitTerminates ==
    /\ [][pc' \in Terminated /\ pc \notin Terminated
             => pc = "main" /\ pc' = "exited" /\ disk' = data']_vars
    /\ [](eof => pc \in MenuPrompts)
    /\ [](eof => <>(Len(out.lines) = 1 /\ StartsWith(out.lines[1], "Unknown option")))
    /\ [][eof => data' = data /\ disk' = disk /\ pc' = pc]_vars

====
